---------------------------- MODULE Spec2Model ----------------------------
(***************************************************************************)
(* Nested max-remainder apportionment (nested_apportionment.py).           *)
(*                                                                         *)
(* Numbers.  Every real number of the program is represented by the        *)
(* integer  Scale * x : a leaf 0.75 is 3 when Scale = 4.  With Scale a     *)
(* power of two and the small magnitudes used here, every value is a       *)
(* dyadic rational that binary floating point represents and adds          *)
(* exactly, so the integer arithmetic below is the program's arithmetic.   *)
(* Integers of the program (totals, floors, 0/1 decisions, rounded values) *)
(* are unscaled.                                                           *)
(*                                                                         *)
(* Dictionaries.  A Python dict keeps insertion order, so a dict is a      *)
(* sequence of items [key, value].  A prediction tree node is either       *)
(*   Leaf(v)  = [isdict |-> FALSE, val |-> v, items |-> << >>]   or        *)
(*   Dict(it) = [isdict |-> TRUE,  val |-> 0, items |-> it]                *)
(* where isdict is the answer of isinstance(node, dict).  The per-level    *)
(* error dictionaries are only read by key, compared by key set and        *)
(* updated by key, so they are functions from keys to scaled numbers.      *)
(***************************************************************************)
EXTENDS Integers, Sequences, FiniteSets, TLC

VARIABLES
    mode,         \* which entry point this behaviour exercises
    predictions,  \* nested_apportion: the argument (never modified)
    pc,           \* nested_apportion: "start", "recurse", "done", "failed"
    total,        \* nested_apportion: int(round(calculate_total(predictions)))
    errors,       \* nested_apportion: the list built by initialize_errors
    stack,        \* pending _recurse calls, next call first
    log,          \* the max_remainder_round calls made so far, in order
    result,       \* nested_apportion: the returned tree (NoTree until then)
    failure,      \* the exception that ended the call ("none" if none)
    call,         \* direct call of a helper: its arguments
    ret           \* direct call of a helper: its outcome

vars == <<mode, predictions, pc, total, errors, stack, log, result, failure,
          call, ret>>

---------------------------------------------------------------------------
(* Bounds of the model. *)

Scale == 4            \* numbers are multiples of 1/Scale
MaxLeaf == 3          \* leaves of the wide trees: 0 .. MaxLeaf  (0 .. 0.75)
MaxRem == 2           \* remainders of direct allocator calls: 0 .. MaxRem
MaxErr == 1           \* accumulated errors of direct calls: 0 .. MaxErr
MaxVal == 5           \* values of direct rounder calls: 0 .. MaxVal

RootKeys == {"A", "B", "C"}
MidKeys == {"M", "N"}
LeafKeys == {"X", "Y"}
DeepRootKeys == {"A", "B"}
DeepLeafVals == {2, 5}
CallKeys == {"A", "B", "C"}

(* Python compares the one-letter keys used here alphabetically. *)
KeyOrder == <<"A", "B", "C", "M", "N", "X", "Y">>
KeyRank(k) == CHOOSE i \in DOMAIN KeyOrder : KeyOrder[i] = k

---------------------------------------------------------------------------
(* Ordered dictionaries. *)

Leaf(v) == [isdict |-> FALSE, val |-> v, items |-> << >>]
Dict(it) == [isdict |-> TRUE, val |-> 0, items |-> it]
NoTree == [isdict |-> FALSE, val |-> -1, items |-> << >>]

KeySeq(d) == [i \in DOMAIN d |-> d[i].key]
KeySet(d) == {d[i].key : i \in DOMAIN d}
Get(d, k) == d[CHOOSE i \in DOMAIN d : d[i].key = k].value

RECURSIVE SumSeq(_)
SumSeq(s) == IF s = << >> THEN 0 ELSE Head(s) + SumSeq(Tail(s))

Values(d) == [i \in DOMAIN d |-> d[i].value]

---------------------------------------------------------------------------
(* Number conversions (x is Scale times the real number). *)

(* Mutant: the value is rounded to the nearest integer, not truncated. *)
TruncNearest(x) == (2 * x + Scale) \div (2 * Scale)

(* int(v): truncation toward zero. *)
Trunc(x) == IF x >= 0 THEN x \div Scale ELSE -((-x) \div Scale)

(* Mutant: a tie goes up instead of to the even neighbour. *)
RoundHalfUp(x) == (2 * x + Scale) \div (2 * Scale)

(* int(round(x)): nearest integer, a tie goes to the even neighbour. *)
RoundHalfEven(x) ==
    LET q == x \div Scale
        r == x % Scale
    IN  IF 2 * r < Scale THEN q
        ELSE IF 2 * r > Scale THEN q + 1
        ELSE IF q % 2 = 0 THEN q ELSE q + 1

---------------------------------------------------------------------------
(* sum_nested and calculate_total. *)

RECURSIVE sum_nested(_)
sum_nested(values) ==
    [i \in DOMAIN values |->
        [key |-> values[i].key,
         value |-> IF values[i].value.isdict
                   THEN SumSeq(Values(sum_nested(values[i].value.items)))
                   ELSE values[i].value.val]]

calculate_total(preds) == SumSeq(Values(sum_nested(preds)))

---------------------------------------------------------------------------
(* initialize_errors: the list of zeroed error dictionaries, one appended  *)
(* for every dictionary met in pre-order, or the ValueError raised at the  *)
(* first pair of sibling dictionaries whose key sets differ.  The loop     *)
(* over the children first recurses into a child and then compares its     *)
(* keys with those of the first child.                                     *)

NoRaise == [raised |-> FALSE, list |-> << >>]

RECURSIVE initialize_errors(_)
RECURSIVE InitErrorsLoop(_, _, _, _)
RECURSIVE InitErrorsLoopShallow(_, _, _, _)

(* Mutant: an error raised while a child is traversed is dropped, so only  *)
(* the keys of the children of the dictionary itself are compared.         *)
InitErrorsLoopShallow(items, i, example_keys, acc) ==
    IF i > Len(items) THEN [raised |-> FALSE, list |-> acc]
    ELSE LET sub == initialize_errors(items[i].value)
         IN  IF items[1].value.isdict
                /\ KeySet(items[i].value.items) # example_keys
             THEN [raised |-> TRUE, list |-> << >>]
             ELSE InitErrorsLoopShallow(items, i + 1, example_keys,
                                        acc \o sub.list)

InitErrorsLoop(items, i, example_keys, acc) ==
    IF i > Len(items) THEN [raised |-> FALSE, list |-> acc]
    ELSE LET sub == initialize_errors(items[i].value)
         IN  IF sub.raised THEN [raised |-> TRUE, list |-> << >>]
             ELSE IF items[1].value.isdict
                     /\ KeySet(items[i].value.items) # example_keys
                  THEN [raised |-> TRUE, list |-> << >>]
                  ELSE InitErrorsLoop(items, i + 1, example_keys,
                                      acc \o sub.list)

initialize_errors(node) ==
    IF ~node.isdict THEN NoRaise
    ELSE LET dict_level == node.items[1].value.isdict
             example_keys == IF dict_level
                             THEN KeySet(node.items[1].value.items)
                             ELSE {}
         IN  InitErrorsLoop(node.items, 1, example_keys,
                            << [k \in KeySet(node.items) |-> 0] >>)

---------------------------------------------------------------------------
(* allocate_remainder.  errors is [isdefault, map]: isdefault says that    *)
(* the argument is a defaultdict (a missing key reads as 0.0).             *)

PlainDict(f) == [isdefault |-> FALSE, map |-> f]

ErrGet(errs, cat) ==
    IF cat \in DOMAIN errs.map THEN errs.map[cat] ELSE 0

(* Mutant: the accumulated error is left out of the order. *)
ItemLessNoError(a, b) ==
    \/ a[1] < b[1]
    \/ a[1] = b[1] /\ KeyRank(a[3]) < KeyRank(b[3])

(* Python's tuple order on (-remainder, error, category). *)
ItemLess(a, b) ==
    \/ a[1] < b[1]
    \/ a[1] = b[1] /\ a[2] < b[2]
    \/ a[1] = b[1] /\ a[2] = b[2] /\ KeyRank(a[3]) < KeyRank(b[3])

(* Mutant: the n largest items are taken (heapq.nlargest). *)
nlargest(n, items) ==
    {i \in DOMAIN items :
        Cardinality({j \in DOMAIN items :
                        \/ ItemLess(items[i], items[j])
                        \/ /\ ~ItemLess(items[j], items[i])
                           /\ j < i}) < n}

(* heapq.nsmallest(n, items): the n smallest items, as the set of their    *)
(* positions in items (an item is selected when fewer than n items come    *)
(* before it in the sorted list; equal items keep their list order).       *)
nsmallest(n, items) ==
    {i \in DOMAIN items :
        Cardinality({j \in DOMAIN items :
                        \/ ItemLess(items[j], items[i])
                        \/ /\ ~ItemLess(items[i], items[j])
                           /\ j < i}) < n}

(* Mutant: the key sets are compared only when something is allocated. *)
allocate_remainder_lazy_keys(remainders, tot, errs) ==
    IF tot > Len(remainders)
    THEN [raised |-> "total_too_large", allocation |-> << >>]
    ELSE IF tot < 0
    THEN [raised |-> "total_negative", allocation |-> << >>]
    ELSE IF tot > 0 /\ ~errs.isdefault /\ KeySet(remainders) # DOMAIN errs.map
    THEN [raised |-> "key_mismatch", allocation |-> << >>]
    ELSE LET items == [i \in DOMAIN remainders |->
                          <<-remainders[i].value,
                            ErrGet(errs, remainders[i].key),
                            remainders[i].key>>]
             allocated_items == nsmallest(tot, items)
             allocated_categories == {items[i][3] : i \in allocated_items}
         IN  [raised |-> "none",
              allocation |->
                 [i \in DOMAIN remainders |->
                     [key |-> remainders[i].key,
                      value |-> IF remainders[i].key \in allocated_categories
                                THEN 1 ELSE 0]]]

(* Mutant: the key sets are compared before the total is looked at. *)
allocate_remainder_keys_first(remainders, tot, errs) ==
    IF ~errs.isdefault /\ KeySet(remainders) # DOMAIN errs.map
    THEN [raised |-> "key_mismatch", allocation |-> << >>]
    ELSE IF tot > Len(remainders)
    THEN [raised |-> "total_too_large", allocation |-> << >>]
    ELSE IF tot < 0
    THEN [raised |-> "total_negative", allocation |-> << >>]
    ELSE LET items == [i \in DOMAIN remainders |->
                          <<-remainders[i].value,
                            ErrGet(errs, remainders[i].key),
                            remainders[i].key>>]
             allocated_items == nsmallest(tot, items)
             allocated_categories == {items[i][3] : i \in allocated_items}
         IN  [raised |-> "none",
              allocation |->
                 [i \in DOMAIN remainders |->
                     [key |-> remainders[i].key,
                      value |-> IF remainders[i].key \in allocated_categories
                                THEN 1 ELSE 0]]]

allocate_remainder(remainders, tot, errs) ==
    IF tot > Len(remainders)
    THEN [raised |-> "total_too_large", allocation |-> << >>]
    ELSE IF tot < 0
    THEN [raised |-> "total_negative", allocation |-> << >>]
    ELSE IF ~errs.isdefault /\ KeySet(remainders) # DOMAIN errs.map
    THEN [raised |-> "key_mismatch", allocation |-> << >>]
    ELSE LET items == [i \in DOMAIN remainders |->
                          <<-remainders[i].value,
                            ErrGet(errs, remainders[i].key),
                            remainders[i].key>>]
             allocated_items == nsmallest(tot, items)
             allocated_categories == {items[i][3] : i \in allocated_items}
         IN  [raised |-> "none",
              allocation |->
                 [i \in DOMAIN remainders |->
                     [key |-> remainders[i].key,
                      value |-> IF remainders[i].key \in allocated_categories
                                THEN 1 ELSE 0]]]

---------------------------------------------------------------------------
(* max_remainder_round. *)

(* Mutant: the values are rounded to the nearest integer before the        *)
(* allocation is added, instead of being truncated.                        *)
max_remainder_round_nearest(preds, tot, errs) ==
    LET floor_preds == [i \in DOMAIN preds |->
                           [key |-> preds[i].key,
                            value |-> Trunc(preds[i].value)]]
        remainders == [i \in DOMAIN preds |->
                          [key |-> preds[i].key,
                           value |-> preds[i].value
                                     - Scale * Get(floor_preds, preds[i].key)]]
        floor_sum == SumSeq(Values(floor_preds))
        remaining_sum == tot - floor_sum
        alloc == allocate_remainder(remainders, remaining_sum, errs)
    IN  IF alloc.raised # "none"
        THEN [raised |-> alloc.raised, rounded |-> << >>, new_errors |-> << >>]
        ELSE LET rounded_preds ==
                    [i \in DOMAIN preds |->
                        [key |-> preds[i].key,
                         value |-> RoundHalfUp(preds[i].value)
                                   + Get(alloc.allocation, preds[i].key)]]
             IN  [raised |-> "none",
                  rounded |-> rounded_preds,
                  new_errors |->
                     [i \in DOMAIN preds |->
                         [key |-> preds[i].key,
                          value |-> Scale * Get(rounded_preds, preds[i].key)
                                    - preds[i].value]]]

(* Mutant: the new errors have the opposite sign (original minus rounded). *)
max_remainder_round_sign(preds, tot, errs) ==
    LET floor_preds == [i \in DOMAIN preds |->
                           [key |-> preds[i].key,
                            value |-> Trunc(preds[i].value)]]
        remainders == [i \in DOMAIN preds |->
                          [key |-> preds[i].key,
                           value |-> preds[i].value
                                     - Scale * Get(floor_preds, preds[i].key)]]
        floor_sum == SumSeq(Values(floor_preds))
        remaining_sum == tot - floor_sum
        alloc == allocate_remainder(remainders, remaining_sum, errs)
    IN  IF alloc.raised # "none"
        THEN [raised |-> alloc.raised, rounded |-> << >>, new_errors |-> << >>]
        ELSE LET rounded_preds ==
                    [i \in DOMAIN floor_preds |->
                        [key |-> floor_preds[i].key,
                         value |-> floor_preds[i].value
                                   + Get(alloc.allocation, floor_preds[i].key)]]
             IN  [raised |-> "none",
                  rounded |-> rounded_preds,
                  new_errors |->
                     [i \in DOMAIN preds |->
                         [key |-> preds[i].key,
                          value |-> preds[i].value
                                    - Scale * Get(rounded_preds, preds[i].key)]]]

max_remainder_round(preds, tot, errs) ==
    LET floor_preds == [i \in DOMAIN preds |->
                           [key |-> preds[i].key,
                            value |-> Trunc(preds[i].value)]]
        remainders == [i \in DOMAIN preds |->
                          [key |-> preds[i].key,
                           value |-> preds[i].value
                                     - Scale * Get(floor_preds, preds[i].key)]]
        floor_sum == SumSeq(Values(floor_preds))
        remaining_sum == tot - floor_sum
        alloc == allocate_remainder(remainders, remaining_sum, errs)
    IN  IF alloc.raised # "none"
        THEN [raised |-> alloc.raised, rounded |-> << >>, new_errors |-> << >>]
        ELSE LET rounded_preds ==
                    [i \in DOMAIN floor_preds |->
                        [key |-> floor_preds[i].key,
                         value |-> floor_preds[i].value
                                   + Get(alloc.allocation, floor_preds[i].key)]]
             IN  [raised |-> "none",
                  rounded |-> rounded_preds,
                  new_errors |->
                     [i \in DOMAIN preds |->
                         [key |-> preds[i].key,
                          value |-> Scale * Get(rounded_preds, preds[i].key)
                                    - preds[i].value]]]

---------------------------------------------------------------------------
(* The trees the model starts from.  Every dictionary of one tree lists    *)
(* its keys in the same direction: alphabetically (asc) or reversed.       *)
(* Sibling and cousin dictionaries are free to differ in their key sets,   *)
(* so the families hold the valid trees and the invalid ones.              *)

KeyList(K, asc) ==
    CHOOSE s \in [1 .. Cardinality(K) -> K] :
        /\ \A i, j \in DOMAIN s : i # j => s[i] # s[j]
        /\ \A i, j \in DOMAIN s :
              i < j => IF asc THEN KeyRank(s[i]) < KeyRank(s[j])
                              ELSE KeyRank(s[i]) > KeyRank(s[j])

MkDict(ks, f) ==
    Dict([i \in DOMAIN ks |-> [key |-> ks[i], value |-> f[i]]])

DictsOver(pool, kids, asc) ==
    UNION {LET ks == KeyList(K, asc)
           IN  {MkDict(ks, f) : f \in [DOMAIN ks -> kids]} :
           K \in (SUBSET pool) \ {{}}}

LeafNodes(vals) == {Leaf(v) : v \in vals}

(* The children a root dictionary may have.  Wide trees: one or two        *)
(* levels, up to three root categories, leaves 0 .. MaxLeaf.  Deep trees:  *)
(* three levels, two categories per level.                                 *)
WideKids(asc) ==
    LeafNodes(0 .. MaxLeaf)
    \cup DictsOver(LeafKeys, LeafNodes(0 .. MaxLeaf), asc)

DeepKids(asc) ==
    DictsOver(MidKeys, DictsOver(LeafKeys, LeafNodes(DeepLeafVals), asc), asc)

(* A dictionary's values are all leaves or all dictionaries. *)
Uniform(f) == \A i, j \in DOMAIN f : f[i].isdict = f[j].isdict

InitTree(t) ==
    \E asc \in BOOLEAN :
        \/ \E K \in (SUBSET RootKeys) \ {{}} :
              \E f \in [1 .. Cardinality(K) -> WideKids(asc)] :
                  /\ Uniform(f)
                  /\ t = MkDict(KeyList(K, asc), f)
        \/ \E K \in (SUBSET DeepRootKeys) \ {{}} :
              \E f \in [1 .. Cardinality(K) -> DeepKids(asc)] :
                  t = MkDict(KeyList(K, asc), f)

---------------------------------------------------------------------------
(* nested_apportion as a state machine: one step for lines 35-36, one step *)
(* for the body of every _recurse call, one step for the return.           *)

NoCall == [remainders |-> << >>, values |-> << >>, total |-> 0,
           errors |-> PlainDict(<< >>)]
NoRet == [raised |-> "pending", allocation |-> << >>, rounded |-> << >>,
          new_errors |-> << >>]

RECURSIVE NodeAt(_, _)
NodeAt(node, path) ==
    IF path = << >> THEN node
    ELSE NodeAt(Get(node.items, Head(path)), Tail(path))

(* The rounded values that the _recurse call on the node at path computed. *)
RoundedAt(lg, path) ==
    lg[CHOOSE i \in DOMAIN lg : lg[i].path = path].rounded

(* The value _recurse returns for the node at path, from the values the    *)
(* calls below it rounded (lines 58-64).                                   *)
RECURSIVE Returned(_, _, _)
Returned(node, path, lg) ==
    IF ~node.items[1].value.isdict
    THEN Dict([i \in DOMAIN node.items |->
                  [key |-> node.items[i].key,
                   value |-> Leaf(Get(RoundedAt(lg, path),
                                      node.items[i].key))]])
    ELSE Dict([i \in DOMAIN node.items |->
                  [key |-> node.items[i].key,
                   value |-> Returned(node.items[i].value,
                                      Append(path, node.items[i].key), lg)]])

Init ==
    /\ mode = "nested"
    /\ InitTree(predictions)
    /\ pc = "start"
    /\ total = 0
    /\ errors = << >>
    /\ stack = << >>
    /\ log = << >>
    /\ result = NoTree
    /\ failure = "none"
    /\ call = NoCall
    /\ ret = NoRet

(* Lines 35-36. *)
Begin ==
    /\ mode = "nested"
    /\ pc = "start"
    /\ total' = RoundHalfEven(calculate_total(predictions.items))
    /\ LET init == initialize_errors(predictions)
       IN  IF init.raised
           THEN /\ pc' = "failed"
                /\ failure' = "inconsistent_keys"
                /\ UNCHANGED <<errors, stack>>
           ELSE /\ pc' = "recurse"
                /\ errors' = init.list
                /\ stack' = <<[path |-> << >>, subtotal |-> total',
                               level |-> 0]>>
                /\ UNCHANGED failure
    /\ UNCHANGED <<mode, predictions, log, result, call, ret>>

(* Mutant: line 57 assigns the new error instead of adding it. *)
RecurseOverwrite ==
    /\ mode = "nested"
    /\ pc = "recurse"
    /\ stack # << >>
    /\ LET frame == Head(stack)
           subpredictions == NodeAt(predictions, frame.path)
           flattened == sum_nested(subpredictions.items)
           level == frame.level
       IN  \E r \in {max_remainder_round(flattened, frame.subtotal,
                                         PlainDict(errors[level + 1]))} :
           IF r.raised # "none"
           THEN /\ pc' = "failed"
                /\ failure' = r.raised
                /\ stack' = << >>
                /\ UNCHANGED <<errors, log>>
           ELSE /\ errors' = [errors EXCEPT ![level + 1] =
                                 [k \in DOMAIN @ |->
                                     IF k \in KeySet(r.new_errors)
                                     THEN Get(r.new_errors, k)
                                     ELSE @[k]]]
                /\ log' = Append(log, [path |-> frame.path,
                                       level |-> level,
                                       subtotal |-> frame.subtotal,
                                       errors_in |-> errors[level + 1],
                                       rounded |-> r.rounded,
                                       new_errors |-> r.new_errors])
                /\ IF ~subpredictions.items[1].value.isdict
                   THEN stack' = Tail(stack)
                   ELSE stack' =
                          [i \in DOMAIN subpredictions.items |->
                              [path |-> Append(frame.path,
                                               subpredictions.items[i].key),
                               subtotal |-> Get(r.rounded,
                                                subpredictions.items[i].key),
                               level |-> level + 1]]
                          \o Tail(stack)
                /\ UNCHANGED <<pc, failure>>
    /\ UNCHANGED <<mode, predictions, total, result, call, ret>>

(* Lines 54-64: the body of the next _recurse call.  The calls it makes on *)
(* its children (line 63) are put in front of the pending calls, in the    *)
(* order of the dictionary.                                                *)
Recurse ==
    /\ mode = "nested"
    /\ pc = "recurse"
    /\ stack # << >>
    /\ LET frame == Head(stack)
           subpredictions == NodeAt(predictions, frame.path)
           flattened == sum_nested(subpredictions.items)
           level == frame.level
       IN  \E r \in {max_remainder_round(flattened, frame.subtotal,
                                         PlainDict(errors[level + 1]))} :
           IF r.raised # "none"
           THEN /\ pc' = "failed"
                /\ failure' = r.raised
                /\ stack' = << >>
                /\ UNCHANGED <<errors, log>>
           ELSE /\ errors' = [errors EXCEPT ![level + 1] =
                                 [k \in DOMAIN @ |->
                                     IF k \in KeySet(r.new_errors)
                                     THEN @[k] + Get(r.new_errors, k)
                                     ELSE @[k]]]
                /\ log' = Append(log, [path |-> frame.path,
                                       level |-> level,
                                       subtotal |-> frame.subtotal,
                                       errors_in |-> errors[level + 1],
                                       rounded |-> r.rounded,
                                       new_errors |-> r.new_errors])
                /\ IF ~subpredictions.items[1].value.isdict
                   THEN stack' = Tail(stack)
                   ELSE stack' =
                          [i \in DOMAIN subpredictions.items |->
                              [path |-> Append(frame.path,
                                               subpredictions.items[i].key),
                               subtotal |-> Get(r.rounded,
                                                subpredictions.items[i].key),
                               level |-> level + 1]]
                          \o Tail(stack)
                /\ UNCHANGED <<pc, failure>>
    /\ UNCHANGED <<mode, predictions, total, result, call, ret>>

(* Lines 66-67: the outermost _recurse call has returned. *)
Return ==
    /\ mode = "nested"
    /\ pc = "recurse"
    /\ stack = << >>
    /\ result' = Returned(predictions, << >>, log)
    /\ pc' = "done"
    /\ UNCHANGED <<mode, predictions, total, errors, stack, log, failure,
                   call, ret>>

Next == Begin \/ Recurse \/ Return

Spec == Init /\ [][Next]_vars

---------------------------------------------------------------------------
(* Direct calls of allocate_remainder and of max_remainder_round.          *)

ErrVals == (0 - MaxErr) .. MaxErr
TotalRange == -1 .. (Cardinality(CallKeys) + 1)

(* Every listing order of every subset of the keys. *)
KeyLists(pool) ==
    UNION {{s \in [1 .. Cardinality(K) -> K] :
               \A i, j \in DOMAIN s : i # j => s[i] # s[j]} :
           K \in SUBSET pool}

MkFlat(ks, f) == [i \in DOMAIN ks |-> [key |-> ks[i], value |-> f[i]]]

ErrorArgs ==
    UNION {{[isdefault |-> d, map |-> e] : d \in BOOLEAN, e \in [E -> ErrVals]} :
           E \in SUBSET CallKeys}

InitAllocate ==
    /\ mode = "allocate"
    /\ \E ks \in KeyLists(CallKeys) :
          \E f \in [DOMAIN ks -> 0 .. MaxRem] :
             \E tot \in TotalRange :
                \E errs \in ErrorArgs :
                   call = [remainders |-> MkFlat(ks, f), values |-> << >>,
                           total |-> tot, errors |-> errs]
    /\ ret = NoRet
    /\ predictions = NoTree
    /\ pc = "start"
    /\ total = 0
    /\ errors = << >>
    /\ stack = << >>
    /\ log = << >>
    /\ result = NoTree
    /\ failure = "none"

CallAllocateRemainder ==
    /\ mode = "allocate"
    /\ ret = NoRet
    /\ \E a \in {allocate_remainder(call.remainders, call.total, call.errors)} :
          ret' = [raised |-> a.raised, allocation |-> a.allocation,
                  rounded |-> << >>, new_errors |-> << >>]
    /\ UNCHANGED <<mode, predictions, pc, total, errors, stack, log, result,
                   failure, call>>

NextAllocate == CallAllocateRemainder

SpecAllocate == InitAllocate /\ [][NextAllocate]_vars

(* Rounder calls: values 0 .. MaxVal, targets from one below the smallest  *)
(* floor sum to one above the largest floor sum plus the category count.   *)
TargetRange ==
    -1 .. (Cardinality(CallKeys) * (MaxVal \div Scale)
           + Cardinality(CallKeys) + 1)

InitRound ==
    /\ mode = "round"
    /\ \E asc \in BOOLEAN :
          \E K \in SUBSET CallKeys :
             \E f \in [1 .. Cardinality(K) -> 0 .. MaxVal] :
                \E tot \in TargetRange :
                   \E E \in SUBSET CallKeys :
                      \E e \in [E -> 0 .. MaxErr] :
                         call = [remainders |-> << >>,
                                 values |-> MkFlat(KeyList(K, asc), f),
                                 total |-> tot, errors |-> PlainDict(e)]
    /\ ret = NoRet
    /\ predictions = NoTree
    /\ pc = "start"
    /\ total = 0
    /\ errors = << >>
    /\ stack = << >>
    /\ log = << >>
    /\ result = NoTree
    /\ failure = "none"

CallMaxRemainderRound ==
    /\ mode = "round"
    /\ ret = NoRet
    /\ \E r \in {max_remainder_round(call.values, call.total, call.errors)} :
          ret' = [raised |-> r.raised, allocation |-> << >>,
                  rounded |-> r.rounded, new_errors |-> r.new_errors]
    /\ UNCHANGED <<mode, predictions, pc, total, errors, stack, log, result,
                   failure, call>>

NextRound == CallMaxRemainderRound

SpecRound == InitRound /\ [][NextRound]_vars

---------------------------------------------------------------------------
(* Vocabulary of the properties. *)

Abs(x) == IF x >= 0 THEN x ELSE -x

(* The paths of the dictionaries of a tree (the root is << >>). *)
RECURSIVE DictPaths(_)
DictPaths(node) ==
    IF ~node.isdict THEN {}
    ELSE {<< >>} \cup
         UNION {{<<node.items[i].key>> \o p :
                    p \in DictPaths(node.items[i].value)} :
                i \in DOMAIN node.items}

(* The paths of the leaves of a tree. *)
RECURSIVE LeafPaths(_)
LeafPaths(node) ==
    IF ~node.isdict THEN {<< >>}
    ELSE UNION {{<<node.items[i].key>> \o p :
                    p \in LeafPaths(node.items[i].value)} :
                i \in DOMAIN node.items}

(* The sum of the leaves below a node. *)
RECURSIVE LeafSum(_)
RECURSIVE LeafSumItems(_)
LeafSumItems(items) ==
    IF items = << >> THEN 0
    ELSE LeafSum(Head(items).value) + LeafSumItems(Tail(items))
LeafSum(node) == IF node.isdict THEN LeafSumItems(node.items) ELSE node.val

(* The order and names of the keys of every dictionary of a tree. *)
KeyStructure(tree) ==
    [p \in DictPaths(tree) |-> KeySeq(NodeAt(tree, p).items)]

(* Structurally valid: every dictionary of one depth has the same key set  *)
(* (the trees of the model have uniform depth and non-negative leaves).    *)
LevelUniform(tree) ==
    \A p, q \in DictPaths(tree) :
        Len(p) = Len(q) =>
            KeySet(NodeAt(tree, p).items) = KeySet(NodeAt(tree, q).items)

(* Two dictionaries with the same parent have different key sets. *)
SiblingMismatch(tree) ==
    \E p \in DictPaths(tree) :
        \E i, j \in DOMAIN NodeAt(tree, p).items :
            LET a == NodeAt(tree, p).items[i].value
                b == NodeAt(tree, p).items[j].value
            IN  a.isdict /\ b.isdict /\ KeySet(a.items) # KeySet(b.items)

Depth(tree) == Cardinality({Len(p) : p \in DictPaths(tree)})

(* n is the real number x/Scale rounded to the nearest integer, a tie      *)
(* resolved to the even neighbour.                                         *)
IsNearestEven(n, x) ==
    /\ 2 * Abs(Scale * n - x) <= Scale
    /\ 2 * Abs(Scale * n - x) = Scale => n % 2 = 0

Returned_ok == mode = "nested" /\ pc = "done"

---------------------------------------------------------------------------
(* C1  Conservation: when nested_apportion returns on a structurally valid *)
(* tree, below every dictionary other than the root the output leaves sum  *)
(* to the integer its parent's rounding gave to it, and all output leaves  *)
(* together sum to the input total rounded to the nearest integer, ties to *)
(* the even neighbour.                                                     *)
C1_Conservation ==
    (Returned_ok /\ LevelUniform(predictions)) =>
        /\ IsNearestEven(LeafSum(result), LeafSum(predictions))
        /\ \A p \in DictPaths(predictions) :
              \A i \in DOMAIN NodeAt(predictions, p).items :
                 LET k == NodeAt(predictions, p).items[i].key
                 IN  LeafSum(NodeAt(result, Append(p, k)))
                        = Get(RoundedAt(log, p), k)

(* A two-level tree was returned whose total lies exactly between two      *)
(* integers and whose root hands different integers to its children.       *)
C1_Witness ==
    /\ Returned_ok
    /\ LevelUniform(predictions)
    /\ Depth(predictions) = 2
    /\ 2 * (LeafSum(predictions) % Scale) = Scale
    /\ \E a, b \in DOMAIN RoundedAt(log, << >>) :
          RoundedAt(log, << >>)[a].value # RoundedAt(log, << >>)[b].value

---------------------------------------------------------------------------
(* C2  Floor-or-ceiling: when nested_apportion returns on a structurally   *)
(* valid tree, the output has the input's key structure and every output   *)
(* leaf is a non-negative integer equal to the floor of the input leaf or  *)
(* to that floor plus one.                                                 *)
C2_FloorOrCeiling ==
    (Returned_ok /\ LevelUniform(predictions)) =>
        /\ KeyStructure(result) = KeyStructure(predictions)
        /\ LeafPaths(result) = LeafPaths(predictions)
        /\ \A p \in LeafPaths(predictions) :
              LET out == NodeAt(result, p).val
                  fl == NodeAt(predictions, p).val \div Scale
              IN  out >= 0 /\ (out = fl \/ out = fl + 1)

(* A tree was returned in which one leaf with a positive floor was rounded *)
(* up and another leaf was rounded down.                                   *)
C2_Witness ==
    /\ Returned_ok
    /\ LevelUniform(predictions)
    /\ \E p, q \in LeafPaths(predictions) :
          /\ NodeAt(predictions, p).val >= Scale
          /\ NodeAt(result, p).val = NodeAt(predictions, p).val \div Scale + 1
          /\ NodeAt(predictions, q).val % Scale # 0
          /\ NodeAt(result, q).val = NodeAt(predictions, q).val \div Scale

---------------------------------------------------------------------------
(* Vocabulary of the properties about direct calls. *)

AllocCalled == mode = "allocate" /\ ret # NoRet
RoundCalled == mode = "round" /\ ret # NoRet

SameKeys(d, errs) == DOMAIN errs.map = KeySet(d)

(* The decisions as a function of the category. *)
AsMap(d) == [k \in KeySet(d) |-> Get(d, k)]

(* Category c comes before category d in the ascending order on            *)
(* (negated remainder, accumulated error, category key).                   *)
ComesBefore(c, d, rem, errs) ==
    LET rc == Get(rem, c)
        rd == Get(rem, d)
        ec == IF c \in DOMAIN errs.map THEN errs.map[c] ELSE 0
        ed == IF d \in DOMAIN errs.map THEN errs.map[d] ELSE 0
    IN  \/ rc > rd
        \/ rc = rd /\ ec < ed
        \/ rc = rd /\ ec = ed /\ KeyRank(c) < KeyRank(d)

(* The same dictionary listed in every other order. *)
Reorderings(d) ==
    {[i \in DOMAIN d |-> d[p[i]]] :
        p \in {q \in [DOMAIN d -> DOMAIN d] :
                  \A i, j \in DOMAIN d : i # j => q[i] # q[j]}}

---------------------------------------------------------------------------
(* C3  Allocator selection: with errors over the keys of remainders and    *)
(* 0 <= extra_units <= number of categories, allocate_remainder returns a  *)
(* mapping over exactly the keys of remainders that gives 1 to exactly     *)
(* extra_units categories and 0 to the others; every category given 1      *)
(* comes before every category given 0 in the order on (negated remainder, *)
(* accumulated error, key); and listing the categories in another order    *)
(* gives every category the same decision.                                 *)
C3_AllocatorSelection ==
    (/\ AllocCalled
     /\ SameKeys(call.remainders, call.errors)
     /\ 0 <= call.total
     /\ call.total <= Len(call.remainders)) =>
        /\ ret.raised = "none"
        /\ KeySeq(ret.allocation) = KeySeq(call.remainders)
        /\ \A i \in DOMAIN ret.allocation : ret.allocation[i].value \in {0, 1}
        /\ Cardinality({i \in DOMAIN ret.allocation :
                           ret.allocation[i].value = 1}) = call.total
        /\ \A c, d \in KeySet(call.remainders) :
              (Get(ret.allocation, c) = 1 /\ Get(ret.allocation, d) = 0) =>
                  ComesBefore(c, d, call.remainders, call.errors)
        /\ \A other \in Reorderings(call.remainders) :
              LET a == allocate_remainder(other, call.total, call.errors)
              IN  a.raised = "none" /\ AsMap(a.allocation) = AsMap(ret.allocation)

(* One unit was allocated among three categories listed out of            *)
(* alphabetical order, two of them tied on the largest remainder, and the  *)
(* tie went to the later key because its accumulated error is smaller.     *)
C3_Witness ==
    /\ AllocCalled
    /\ ret.raised = "none"
    /\ call.total = 1
    /\ KeySeq(call.remainders) = <<"C", "A", "B">>
    /\ SameKeys(call.remainders, call.errors)
    /\ Get(call.remainders, "A") = Get(call.remainders, "B")
    /\ Get(call.remainders, "A") > Get(call.remainders, "C")
    /\ call.errors.map["B"] < call.errors.map["A"]
    /\ Get(ret.allocation, "B") = 1

---------------------------------------------------------------------------
(* C4  Allocator failure condition: allocate_remainder raises "total too   *)
(* large" exactly when extra_units exceeds the number of categories,       *)
(* "total negative" exactly when extra_units is negative, "different keys" *)
(* exactly when neither holds, errors is not a default-valued mapping and  *)
(* its key set differs from that of remainders; otherwise it returns a     *)
(* decision for every category.                                            *)
C4_AllocatorFailure ==
    AllocCalled =>
        LET too_large == call.total > Len(call.remainders)
            negative == call.total < 0
            mismatch == /\ ~call.errors.isdefault
                        /\ DOMAIN call.errors.map # KeySet(call.remainders)
        IN  /\ (ret.raised # "none") <=> (too_large \/ negative \/ mismatch)
            /\ too_large <=> ret.raised = "total_too_large"
            /\ negative <=> ret.raised = "total_negative"
            /\ (mismatch /\ ~too_large /\ ~negative)
                   <=> ret.raised = "key_mismatch"
            /\ ret.raised = "none" =>
                   KeySeq(ret.allocation) = KeySeq(call.remainders)
            /\ ret.raised # "none" => ret.allocation = << >>

(* A call with extra_units = 0 failed on the key sets alone. *)
C4_Witness ==
    /\ AllocCalled
    /\ call.total = 0
    /\ ~call.errors.isdefault
    /\ KeySet(call.remainders) = {"A", "B"}
    /\ DOMAIN call.errors.map = {"A", "C"}
    /\ ret.raised = "key_mismatch"

(* A default-valued errors mapping without keys was accepted, and so were  *)
(* empty remainders with extra_units = 0.                                  *)
C4_WitnessAccepted ==
    /\ AllocCalled
    /\ ret.raised = "none"
    /\ \/ /\ call.errors.isdefault
          /\ DOMAIN call.errors.map = {}
          /\ Len(call.remainders) = 3
          /\ call.total = 2
       \/ /\ call.remainders = << >>
          /\ ~call.errors.isdefault
          /\ call.total = 0

---------------------------------------------------------------------------
(* C5  Rounder result: with errors over the keys of the values and         *)
(* floor_sum <= target_total <= floor_sum + number of categories,          *)
(* max_remainder_round returns rounded values that sum to target_total,    *)
(* each the floor of its value plus the allocator's decision for the       *)
(* remainders (value - floor), and new errors equal to rounded value minus *)
(* original value.                                                         *)
FloorOf(x) == x \div Scale
FloorSum(d) == SumSeq([i \in DOMAIN d |-> FloorOf(d[i].value)])
RemaindersOf(d) ==
    [i \in DOMAIN d |-> [key |-> d[i].key, value |-> d[i].value % Scale]]

C5_RounderResult ==
    (/\ RoundCalled
     /\ SameKeys(call.values, call.errors)
     /\ FloorSum(call.values) <= call.total
     /\ call.total <= FloorSum(call.values) + Len(call.values)) =>
        LET decision == allocate_remainder(RemaindersOf(call.values),
                                           call.total - FloorSum(call.values),
                                           call.errors).allocation
        IN  /\ ret.raised = "none"
            /\ KeySeq(ret.rounded) = KeySeq(call.values)
            /\ KeySeq(ret.new_errors) = KeySeq(call.values)
            /\ SumSeq(Values(ret.rounded)) = call.total
            /\ \A i \in DOMAIN call.values :
                  /\ ret.rounded[i].value
                        = FloorOf(call.values[i].value) + decision[i].value
                  /\ ret.new_errors[i].value
                        = Scale * ret.rounded[i].value - call.values[i].value

(* Three values were rounded, one up and one down, with positive floors.   *)
C5_Witness ==
    /\ RoundCalled
    /\ ret.raised = "none"
    /\ Len(call.values) = 3
    /\ SameKeys(call.values, call.errors)
    /\ \E i, j \in DOMAIN call.values :
          /\ call.values[i].value > Scale
          /\ ret.new_errors[i].value > 0
          /\ ret.new_errors[j].value < 0

---------------------------------------------------------------------------
(* C6  Rounder failure: max_remainder_round raises the allocator's "total  *)
(* negative" when target_total is below the sum of the floors and its      *)
(* "total too large" when target_total is above that sum plus the number   *)
(* of categories, whatever the errors are; nothing is returned.            *)
C6_RounderFailure ==
    RoundCalled =>
        /\ call.total < FloorSum(call.values) =>
              /\ ret.raised = "total_negative"
              /\ ret.rounded = << >>
              /\ ret.new_errors = << >>
        /\ call.total > FloorSum(call.values) + Len(call.values) =>
              /\ ret.raised = "total_too_large"
              /\ ret.rounded = << >>
              /\ ret.new_errors = << >>

(* A target one above floor sum plus category count was refused although   *)
(* the errors have other keys than the values.                             *)
C6_Witness ==
    /\ RoundCalled
    /\ Len(call.values) = 2
    /\ FloorSum(call.values) = 2
    /\ call.total = 5
    /\ ~SameKeys(call.values, call.errors)
    /\ ret.raised = "total_too_large"

(* A target below the floor sum was refused. *)
C6_WitnessNegative ==
    /\ RoundCalled
    /\ FloorSum(call.values) = 3
    /\ call.total = 2
    /\ ret.raised = "total_negative"

---------------------------------------------------------------------------
(* C7  Eager validation: on a tree in which two dictionaries with the same *)
(* parent have different key sets, at whatever depth, nested_apportion     *)
(* ends with the inconsistent-keys error of initialize_errors before any   *)
(* max_remainder_round call is made, and returns nothing.                  *)
C7_EagerValidation ==
    (mode = "nested" /\ SiblingMismatch(predictions) /\ pc # "start") =>
        /\ pc = "failed"
        /\ failure = "inconsistent_keys"
        /\ log = << >>
        /\ stack = << >>
        /\ result = NoTree

(* The call failed on a three-level tree whose root children agree on      *)
(* their keys while two dictionaries one level further down do not.        *)
C7_Witness ==
    /\ mode = "nested"
    /\ pc = "failed"
    /\ failure = "inconsistent_keys"
    /\ Depth(predictions) = 3
    /\ \A i, j \in DOMAIN predictions.items :
          KeySet(predictions.items[i].value.items)
             = KeySet(predictions.items[j].value.items)
    /\ SiblingMismatch(predictions)

---------------------------------------------------------------------------
(* C8  Level-wide validation: a tree that initialize_errors accepts has    *)
(* the same key set on every dictionary of one depth, cousins included.    *)
C8_LevelWideValidation ==
    (mode = "nested" /\ pc # "start" /\ failure # "inconsistent_keys") =>
        LevelUniform(predictions)

---------------------------------------------------------------------------
(* C9  Key mismatch unreachable through nested_apportion: on a tree that   *)
(* initialize_errors accepts, no allocate_remainder call made by           *)
(* nested_apportion fails on the key sets of remainders and errors.        *)
C9_NoKeyMismatch ==
    mode = "nested" => failure # "key_mismatch"

---------------------------------------------------------------------------
(* Marginals: the sum of the leaves below key k, over every dictionary of  *)
(* depth d that has the key.                                               *)

RECURSIVE SumLeavesAt(_, _)
SumLeavesAt(tree, paths) ==
    IF paths = {} THEN 0
    ELSE LET p == CHOOSE q \in paths : TRUE
         IN  LeafSum(NodeAt(tree, p)) + SumLeavesAt(tree, paths \ {p})

Occurrences(tree, d, k) ==
    {Append(p, k) : p \in {q \in DictPaths(tree) :
                              Len(q) = d /\ k \in KeySet(NodeAt(tree, q).items)}}

Marginal(tree, d, k) == SumLeavesAt(tree, Occurrences(tree, d, k))

AllKeys == {KeyOrder[i] : i \in DOMAIN KeyOrder}

(* C10  Balanced marginals, as claimed: when nested_apportion returns on a *)
(* structurally valid tree, for every key at every depth the sum of the    *)
(* output leaves under that key differs from the sum of the input leaves   *)
(* under it by at most 1.                                                  *)
C10_BalancedMarginals ==
    (Returned_ok /\ LevelUniform(predictions)) =>
        \A d \in 0 .. Depth(predictions) - 1 : \A k \in AllKeys :
            Abs(Scale * Marginal(result, d, k) - Marginal(predictions, d, k))
               <= Scale

(* C10  as amended: the two sums differ by less than the number of         *)
(* positions at which the key occurs at that depth (less than 1 for every  *)
(* position), so by less than 1 for the keys of the root.                  *)
C10_MarginalsWithinOccurrences ==
    (Returned_ok /\ LevelUniform(predictions)) =>
        \A d \in 0 .. Depth(predictions) - 1 : \A k \in AllKeys :
            LET n == Cardinality(Occurrences(predictions, d, k))
                diff == Abs(Scale * Marginal(result, d, k)
                            - Marginal(predictions, d, k))
            IN  /\ n > 0 => diff < Scale * n
                /\ n = 0 => diff = 0

(* A tree was returned in which the leaves under one key of the second     *)
(* level, which occurs under three parents, moved by more than 1 in sum.   *)
C10_Witness ==
    /\ Returned_ok
    /\ LevelUniform(predictions)
    /\ \E k \in AllKeys :
          /\ Cardinality(Occurrences(predictions, 1, k)) = 3
          /\ Abs(Scale * Marginal(result, 1, k) - Marginal(predictions, 1, k))
                > Scale

---------------------------------------------------------------------------
(* The key set shared by the dictionaries of depth d of a level-uniform    *)
(* tree.                                                                   *)
KeysOfDepth(tree, d) ==
    UNION {KeySet(NodeAt(tree, p).items) :
              p \in {q \in DictPaths(tree) : Len(q) = d}}

(* initialize_errors has just returned its list to nested_apportion. *)
ErrorsInitialized == mode = "nested" /\ pc = "recurse" /\ log = << >>

(* C11  Accumulator shape: on a structurally valid tree with D levels of   *)
(* nesting, initialize_errors returns exactly D mappings, the one for      *)
(* depth d = 0 .. D-1 having the key set of the dictionaries of depth d    *)
(* and the value 0.0 for every key.                                        *)
C11_AccumulatorShape ==
    (ErrorsInitialized /\ LevelUniform(predictions)) =>
        /\ Len(errors) = Depth(predictions)
        /\ \A d \in 0 .. Depth(predictions) - 1 :
              /\ DOMAIN errors[d + 1] = KeysOfDepth(predictions, d)
              /\ \A k \in DOMAIN errors[d + 1] : errors[d + 1][k] = 0

---------------------------------------------------------------------------
(* The dictionaries of a tree in depth-first pre-order, the children of a  *)
(* dictionary in the order of its keys.                                    *)
RECURSIVE PreOrder(_, _)
RECURSIVE PreOrderItems(_, _, _)
PreOrderItems(items, i, path) ==
    IF i > Len(items) THEN << >>
    ELSE PreOrder(items[i].value, Append(path, items[i].key))
         \o PreOrderItems(items, i + 1, path)
PreOrder(node, path) ==
    IF ~node.isdict THEN << >>
    ELSE <<path>> \o PreOrderItems(node.items, 1, path)

(* The error that the n first rounder calls made on key k at depth d: the  *)
(* sum of rounded value minus original value (the sum of the input leaves  *)
(* below the key) over the calls of depth d among them.                    *)
RECURSIVE ErrorSoFar(_, _, _, _, _)
ErrorSoFar(tree, lg, n, d, k) ==
    IF n = 0 THEN 0
    ELSE ErrorSoFar(tree, lg, n - 1, d, k)
         + (IF lg[n].level = d
            THEN Scale * Get(lg[n].rounded, k)
                 - LeafSum(NodeAt(tree, Append(lg[n].path, k)))
            ELSE 0)

(* C12  Accumulator threading order: the nodes are rounded in depth-first  *)
(* pre-order; the errors handed to the rounder for a node of depth d are,  *)
(* for every key, the sum of rounded minus original value over the nodes   *)
(* of depth d rounded before it (0 for the first); and after every step    *)
(* the accumulator of each depth holds exactly the errors of the nodes of  *)
(* that depth rounded so far, so a step adds the node's own errors to its  *)
(* depth at once and leaves the other depths alone.                        *)
C12_ThreadingOrder ==
    (mode = "nested" /\ errors # << >>) =>
        \A order \in {PreOrder(predictions, << >>)} :
            /\ Len(log) <= Len(order)
            /\ \A i \in DOMAIN log :
                  /\ log[i].path = order[i]
                  /\ log[i].level = Len(log[i].path)
                  /\ DOMAIN log[i].errors_in = KeySet(log[i].rounded)
                  /\ \A k \in DOMAIN log[i].errors_in :
                        log[i].errors_in[k]
                           = ErrorSoFar(predictions, log, i - 1,
                                        log[i].level, k)
            /\ \A d \in 0 .. Depth(predictions) - 1 :
                  \A k \in DOMAIN errors[d + 1] :
                     errors[d + 1][k]
                        = ErrorSoFar(predictions, log, Len(log), d, k)

(* The third node of the second level was rounded with an accumulated      *)
(* error that is the sum of two non-zero errors of its two elder siblings  *)
(* and differs from each of them.                                          *)
C12_Witness ==
    /\ mode = "nested"
    /\ Len(log) >= 4
    /\ log[2].level = 1 /\ log[3].level = 1 /\ log[4].level = 1
    /\ \E i \in DOMAIN log[2].new_errors :
          LET k == log[2].new_errors[i].key
              e2 == log[2].new_errors[i].value
              e3 == Get(log[3].new_errors, k)
          IN  /\ e2 # 0 /\ e3 # 0 /\ e2 + e3 # 0
              /\ log[3].errors_in[k] = e2
              /\ log[4].errors_in[k] = e2 + e3

---------------------------------------------------------------------------
(* The target of a _recurse call on the node at path lies between the sum  *)
(* of the floors of the node's flattened child values and that sum plus    *)
(* the number of children.                                                 *)
FlattenedFloorSum(tree, path) ==
    LET node == NodeAt(tree, path)
    IN  SumSeq([i \in DOMAIN node.items |->
                   LeafSum(node.items[i].value) \div Scale])

TargetInRange(tree, path, target) ==
    \A floor_sum \in {FlattenedFloorSum(tree, path)} :
        /\ floor_sum <= target
        /\ target <= floor_sum + Len(NodeAt(tree, path).items)

(* C13  No invalid total on valid input: on a structurally valid tree      *)
(* nested_apportion never fails; the target of every _recurse call made or *)
(* pending satisfies floor_sum <= target <= floor_sum + number of          *)
(* children; and the call ends with a result: every step rounds a          *)
(* dictionary not rounded before, the outermost call returns only when all *)
(* dictionaries are rounded, and what it returns is a tree.                *)
C13_NoInvalidTotal ==
    (mode = "nested" /\ LevelUniform(predictions)) =>
        \A paths \in {DictPaths(predictions)} :
            /\ pc # "failed"
            /\ failure = "none"
            /\ \A i \in DOMAIN log :
                  TargetInRange(predictions, log[i].path, log[i].subtotal)
            /\ \A i \in DOMAIN stack :
                  TargetInRange(predictions, stack[i].path, stack[i].subtotal)
            /\ \A i, j \in DOMAIN log : i # j => log[i].path # log[j].path
            /\ \A i \in DOMAIN log : log[i].path \in paths
            /\ (pc = "recurse" /\ stack = << >>) =>
                  Len(log) = Cardinality(paths)
            /\ pc = "done" =>
                  /\ Len(log) = Cardinality(paths)
                  /\ result.isdict

(* A three-level tree was returned in which one node was handed a target   *)
(* equal to its floor sum plus its number of children and another node a   *)
(* target equal to its floor sum although its remainders are not all zero. *)
C13_Witness ==
    /\ Returned_ok
    /\ LevelUniform(predictions)
    /\ Depth(predictions) = 3
    /\ \E i, j \in DOMAIN log :
          /\ Len(NodeAt(predictions, log[i].path).items) = 2
          /\ log[i].subtotal
                = FlattenedFloorSum(predictions, log[i].path) + 2
          /\ log[j].subtotal = FlattenedFloorSum(predictions, log[j].path)
          /\ \E m \in DOMAIN log[j].new_errors :
                log[j].new_errors[m].value # 0

====
